---------------------------- MODULE Spec2Model ----------------------------
(***************************************************************************)
(* Model of the MISB ST 0601 KLV parser (package klvparser): the packet    *)
(* framer (ProcessChunk, extractKLVPacket, calculatePacketLength), the     *)
(* packet parser (parseKLVPacket, getValueStartAndLength), the tag walk    *)
(* (parseMetadata, extractTagValue) and the tag dispatch (processTag,      *)
(* processValue, checkBounds).                                             *)
(*                                                                         *)
(* Bytes are the integers 0..255.  Go indices are 0-based; the operators   *)
(* below take and return Go indices and convert when they touch a TLA+     *)
(* sequence.  A 64-bit machine word is the sequence of its 8 bytes, most   *)
(* significant first, so that shifts wrap exactly as they do in the        *)
(* program (64-bit build: int and uint64 are both 64 bits wide).           *)
(***************************************************************************)
EXTENDS Integers, Sequences, FiniteSets, TLC

VARIABLES
    stream,      \* input: the whole byte stream the caller is going to feed
    pos,         \* input: number of bytes of stream fed so far
    buffer,      \* KLVParser.buffer: the bytes buffered (len(p.buffer) of them)
    bufCap,      \* cap(p.buffer): length of the backing array from the slice start
    tagMeta,     \* the registry: tag id -> current value of its descriptor
    calls,       \* history: one entry per callback invocation, in order
    framed,      \* history: one entry per packet extractKLVPacket sliced out
    frame,       \* history: the last extractKLVPacket invocation
    panicked,    \* TRUE once the Go runtime has panicked (index/slice out of range)
    spinning,    \* TRUE once the loop of ProcessChunk repeats a state: no return
    err,         \* the error value the last ProcessChunk returned
    garbageLen,  \* resynchronisation: number of garbage bytes leading the stream
    ref,         \* resynchronisation: a second parser, fed the stream without them
    stream2,     \* shared registry: the byte stream fed to the second parser
    pos2,        \* shared registry: number of bytes of stream2 fed so far
    cData,       \* codec: bytes of a length field and what follows it
    cOp,         \* codec: which decoder was applied
    cRes,        \* codec: what it returned
    dTag,        \* dispatch: the tag id of the last processTag call
    dValue,      \* dispatch: its value bytes
    dCount,      \* dispatch: number of processTag calls made
    prevMeta,    \* dispatch, walk: the registry before the last call
    wRecords,    \* walk: the records the payload was built from
    wPayload,    \* walk: the payload handed to parseMetadata
    wRes         \* walk: what parseMetadata did

parserVars == <<buffer, bufCap, tagMeta, calls, framed, frame, panicked, spinning,
                err>>
feedVars == <<stream, pos>>
resyncVars == <<garbageLen, ref, stream2, pos2>>
codecVars == <<cData, cOp, cRes>>
dispatchVars == <<dTag, dValue, dCount>>
walkVars == <<wRecords, wPayload, wRes>>

vars == <<stream, pos, buffer, bufCap, tagMeta, calls, framed, frame, panicked, spinning,
          err, garbageLen, ref, stream2, pos2, cData, cOp, cRes, dTag, dValue, dCount,
          prevMeta, wRecords, wPayload, wRes>>

Nil == "nil"

Min(a, b) == IF a < b THEN a ELSE b

----------------------------------------------------------------------------
(* 64-bit words *)

W64Zero == <<0, 0, 0, 0, 0, 0, 0, 0>>

\* (w << 8) | b on a 64-bit word: the top byte falls off.
W64Shl8Or(w, b) == <<w[2], w[3], w[4], w[5], w[6], w[7], w[8], b>>

\* uint64(b) / int(b) for a byte b.
W64FromByte(b) == <<0, 0, 0, 0, 0, 0, 0, b>>

\* the word is a non-negative number below 2^31
W64Small(w) == w[1] = 0 /\ w[2] = 0 /\ w[3] = 0 /\ w[4] = 0 /\ w[5] < 128

W64Int(w) == ((w[5] * 256 + w[6]) * 256 + w[7]) * 256 + w[8]

\* int(w) + k for 0 <= k < 2^20, as a signed 64-bit sum.  cls = "small": the
\* sum is val; "hugePos": the sum is >= 2^31; "hugeNeg": the sum is < -256.
I64Plus(w, k) ==
    IF W64Small(w)
      THEN [cls |-> "small", val |-> W64Int(w) + k]
    ELSE IF w[1] >= 128
      THEN IF \A i \in 1..7 : w[i] = 255
             THEN [cls |-> "small", val |-> (w[8] - 256) + k]
             ELSE [cls |-> "hugeNeg", val |-> 0]
    ELSE IF w[1] = 127 /\ (\A i \in 2..7 : w[i] = 255) /\ w[8] + k > 255
      THEN [cls |-> "hugeNeg", val |-> 0]
      ELSE [cls |-> "hugePos", val |-> 0]

\* n < x  for a small n >= 0 and a sum x
I64Gt(x, n) == x.cls = "hugePos" \/ (x.cls = "small" /\ x.val > n)

I64Neg(x) == x.cls = "hugeNeg" \/ (x.cls = "small" /\ x.val < 0)

----------------------------------------------------------------------------
(* Go slices.  A slice is [arr, len, cap]: arr holds the bytes of the       *)
(* backing array from the slice's start as far as they were ever written,   *)
(* len and cap are the slice's length and capacity.  The array elements     *)
(* past the written ones still hold the zero they were allocated with.      *)

MkSlice(arr, len, cap) == [arr |-> arr, len |-> len, cap |-> cap]

\* the byte at array offset i (0-based) from the slice start
ArrAt(s, i) == IF i + 1 <= Len(s.arr) THEN s.arr[i + 1] ELSE 0

\* the len bytes the slice shows
SliceBytes(s) == [i \in 1..s.len |-> ArrAt(s, i - 1)]

\* s[i]: the runtime checks i against len
IndexOK(s, i) == 0 <= i /\ i < s.len

\* s[lo:hi]: the runtime checks 0 <= lo <= hi <= cap
SliceOK(s, lo, hi) == 0 <= lo /\ lo <= hi /\ hi <= s.cap

SubSlice(s, lo, hi) ==
    MkSlice(SubSeq(s.arr, lo + 1, Len(s.arr)), hi - lo, s.cap - lo)

----------------------------------------------------------------------------
(* The framer's and the parser's length decoders *)

MISB0601UL == <<6, 14, 43, 52, 2, 11, 1, 1, 14, 1, 3, 1, 1, 0, 0, 0>>

RECURSIVE FoldBytes(_, _)
\* packetLength = (packetLength << 8) | b over the bytes, left to right
FoldBytes(w, bs) ==
    IF bs = <<>> THEN w ELSE FoldBytes(W64Shl8Or(w, Head(bs)), Tail(bs))

\* calculatePacketLength without its short-form branch: every length byte is
\* taken as a count of length bytes
calculatePacketLengthNoShortForm(data) ==
    LET lengthFieldSize == ArrAt(data, 16) % 128 IN
    IF ~SliceOK(data, 17, 17 + lengthFieldSize)
      THEN [panic |-> TRUE, over |-> TRUE,
            packetLength |-> W64Zero, lengthFieldSize |-> lengthFieldSize]
      ELSE [panic |-> FALSE,
            over |-> 17 + lengthFieldSize > data.len,
            packetLength |-> FoldBytes(W64Zero,
                               SliceBytes(SubSlice(data, 17, 17 + lengthFieldSize))),
            lengthFieldSize |-> lengthFieldSize]

\* calculatePacketLength(data): data is a slice with len >= 17.
\* over: the slice expression data[17:17+n] reached past len(data).
calculatePacketLength(data) ==
    LET lengthByte == ArrAt(data, 16) IN
    IF lengthByte < 128
      THEN [panic |-> FALSE, over |-> FALSE,
            packetLength |-> W64FromByte(lengthByte), lengthFieldSize |-> 1]
      ELSE LET lengthFieldSize == lengthByte % 128 IN
           IF ~SliceOK(data, 17, 17 + lengthFieldSize)
             THEN [panic |-> TRUE, over |-> TRUE,
                   packetLength |-> W64Zero, lengthFieldSize |-> lengthFieldSize]
             ELSE LET lengthBytes == SubSlice(data, 17, 17 + lengthFieldSize) IN
                  [panic |-> FALSE,
                   over |-> 17 + lengthFieldSize > data.len,
                   packetLength |-> FoldBytes(W64Zero, SliceBytes(lengthBytes)),
                   lengthFieldSize |-> lengthFieldSize]

RECURSIVE FoldIndexed(_, _, _, _, _)
\* for i := i; i < n; i++ { length = (length << 8) | int(s[from+i]) }
FoldIndexed(s, from, i, n, w) ==
    IF i >= n THEN [panic |-> FALSE, length |-> w]
    ELSE IF ~IndexOK(s, from + i) THEN [panic |-> TRUE, length |-> w]
    ELSE FoldIndexed(s, from, i + 1, n, W64Shl8Or(w, ArrAt(s, from + i)))

\* getValueStartAndLength(klvPacket): klvPacket is a slice with len >= 17.
getValueStartAndLength(klvPacket) ==
    LET lengthByte == ArrAt(klvPacket, 16) IN
    IF lengthByte < 128
      THEN [panic |-> FALSE, valueStart |-> 17, length |-> W64FromByte(lengthByte)]
      ELSE LET lengthSize == lengthByte % 128
               r == FoldIndexed(klvPacket, 17, 0, lengthSize, W64Zero)
           IN  [panic |-> r.panic, valueStart |-> 17 + lengthSize, length |-> r.length]

\* the length decode taking every length byte as the length itself
tagLengthShortOnly(valueBytes, index) ==
    IF Len(valueBytes) <= index
      THEN [ok |-> FALSE, panic |-> FALSE, length |-> W64Zero, index |-> index]
      ELSE [ok |-> TRUE, panic |-> FALSE,
            length |-> W64FromByte(valueBytes[index + 1]), index |-> index + 1]

\* The length decode of extractTagValue (its lines up to the value slice):
\* valueBytes is a plain byte sequence, index a Go index.  ok = FALSE is the
\* early return; index is the cursor after the part of the field consumed.
tagLength(valueBytes, index) ==
    IF Len(valueBytes) <= index
      THEN [ok |-> FALSE, panic |-> FALSE, length |-> W64Zero, index |-> index]
      ELSE LET lengthByte == valueBytes[index + 1]
               i1 == index + 1
           IN  IF lengthByte < 128
                 THEN [ok |-> TRUE, panic |-> FALSE,
                       length |-> W64FromByte(lengthByte), index |-> i1]
                 ELSE LET lengthSize == lengthByte % 128 IN
                      IF Len(valueBytes) < i1 + lengthSize
                        THEN [ok |-> FALSE, panic |-> FALSE,
                              length |-> W64Zero, index |-> i1]
                        ELSE [ok |-> TRUE, panic |-> FALSE,
                              length |-> FoldBytes(W64Zero,
                                          SubSeq(valueBytes, i1 + 1, i1 + lengthSize)),
                              index |-> i1 + lengthSize]

\* extractTagValue from the check len(valueBytes) < index+length on: d is the
\* decoded length field, end is index+length
tagValueSlice(valueBytes, d, end) ==
    IF I64Gt(end, Len(valueBytes))
      THEN [panic |-> FALSE, ok |-> FALSE, length |-> W64Zero,
            tagValue |-> <<>>, index |-> d.index]
    ELSE IF I64Neg(end) \/ end.val < d.index
      THEN [panic |-> TRUE, ok |-> FALSE, length |-> d.length,
            tagValue |-> <<>>, index |-> d.index]
      ELSE [panic |-> FALSE, ok |-> TRUE, length |-> d.length,
            tagValue |-> SubSeq(valueBytes, d.index + 1, end.val),
            index |-> end.val]

\* extractTagValue behind its length decode d
tagValueBehind(valueBytes, d) ==
    IF ~d.ok
      THEN [panic |-> FALSE, ok |-> FALSE, length |-> W64Zero,
            tagValue |-> <<>>, index |-> d.index]
      ELSE tagValueSlice(valueBytes, d, I64Plus(d.length, d.index))

\* extractTagValue(valueBytes, index) -> (length, tagValue, index).
\* tagValue = <<>> stands for both nil and the empty slice (len 0 either way).
extractTagValue(valueBytes, index) ==
    tagValueBehind(valueBytes, tagLength(valueBytes, index))

----------------------------------------------------------------------------
(* Descriptor values.  KLVTag.Value is an interface value: nil after        *)
(* start-up, a float64, a string, or a *string (the hex rendering).  A      *)
(* float64 is kept exactly, as (+/- mag) * sn / sd + off with mag a 64-bit  *)
(* magnitude and sn, sd, off small integers; float rounding is not modelled. *)

Value(kind, neg, mag, sn, sd, off, bytes) ==
    [kind |-> kind, neg |-> neg, mag |-> mag, sn |-> sn, sd |-> sd,
     off |-> off, bytes |-> bytes]

NilValue == Value("nil", FALSE, W64Zero, 1, 1, 0, <<>>)
Float(neg, mag, sn, sd, off) == Value("float64", neg, mag, sn, sd, off, <<>>)
Str(bytes) == Value("string", FALSE, W64Zero, 1, 1, 0, bytes)
HexPtr(digits) == Value("*string", FALSE, W64Zero, 1, 1, 0, digits)
NilPtr == Value("nil *string", FALSE, W64Zero, 1, 1, 0, <<>>)

\* the 64 bits of a word, most significant first
Bits(w) == [i \in 1..64 |-> (w[((i - 1) \div 8) + 1] \div (2 ^ (7 - ((i - 1) % 8)))) % 2]

\* the word of 64 bits
OfBits(b) ==
    [k \in 1..8 |->
        b[8 * k - 7] * 128 + b[8 * k - 6] * 64 + b[8 * k - 5] * 32 + b[8 * k - 4] * 16
        + b[8 * k - 3] * 8 + b[8 * k - 2] * 4 + b[8 * k - 1] * 2 + b[8 * k]]

\* the position of the leading 1 bit (65 when there is none)
Lead(b) == IF \E i \in 1..64 : b[i] = 1
             THEN CHOOSE i \in 1..64 : b[i] = 1 /\ \A j \in 1..(i - 1) : b[j] = 0
             ELSE 65

\* b with the bits behind position keep cleared
Truncate(b, keep) == [i \in 1..64 |-> IF i <= keep THEN b[i] ELSE 0]

\* the magnitude of float64(u) for the uint64 u held in w: u itself when it
\* has at most 53 significant bits, else u rounded to 53 significant bits,
\* to nearest and to even on a tie.  Rounding FF..FF up gives 2^64, which is
\* held in 9 bytes.
RoundToFloat64(w) ==
    LET b == Bits(w)
        keep == Lead(b) + 52
    IN  IF keep >= 64 THEN w
        ELSE LET up == b[keep + 1] = 1
                       /\ (b[keep] = 1 \/ \E j \in (keep + 2)..64 : b[j] = 1)
                 zeros == { j \in 1..keep : b[j] = 0 }
             IN  IF ~up THEN OfBits(Truncate(b, keep))
                 ELSE IF zeros = {} THEN <<1>> \o W64Zero
                 ELSE LET z == CHOOSE j \in zeros : \A k \in zeros : k <= j IN
                      OfBits([i \in 1..64 |-> IF i < z THEN b[i]
                                              ELSE IF i = z THEN 1 ELSE 0])

\* float64(u) for an unsigned integer held in a word
FloatOfWord(w) == Float(FALSE, RoundToFloat64(w), 1, 1, 0)

\* the word of a small non-negative integer
W64OfInt(n) ==
    <<0, 0, 0, 0, (n \div 16777216) % 256, (n \div 65536) % 256,
      (n \div 256) % 256, n % 256>>

\* a float64 holding the integer n, |n| < 2^31
FloatOfInt(n) == Float(n < 0, W64OfInt(IF n < 0 THEN 0 - n ELSE n), 1, 1, 0)

----------------------------------------------------------------------------
(* Extractors.  Each returns a pointer: [nil |-> TRUE] is the nil pointer,   *)
(* [nil |-> FALSE, val |-> v] a pointer to v.                               *)

NilPointer(zero) == [nil |-> TRUE, val |-> zero]
PointerTo(v) == [nil |-> FALSE, val |-> v]

extractUint8(value) ==
    IF Len(value) >= 1 THEN PointerTo(W64FromByte(value[1])) ELSE NilPointer(W64Zero)

extractUint16(value) ==
    IF Len(value) >= 2
      THEN PointerTo(FoldBytes(W64Zero, SubSeq(value, 1, 2)))
      ELSE NilPointer(W64Zero)

extractUint32(value) ==
    IF Len(value) >= 4
      THEN PointerTo(FoldBytes(W64Zero, SubSeq(value, 1, 4)))
      ELSE NilPointer(W64Zero)

\* extractUint64 reading the first four bytes only
extractUint64FirstFour(value) ==
    IF Len(value) >= 8
      THEN PointerTo(FoldBytes(W64Zero, SubSeq(value, 1, 4)))
      ELSE NilPointer(W64Zero)

extractUint64(value) ==
    IF Len(value) >= 8
      THEN PointerTo(FoldBytes(W64Zero, SubSeq(value, 1, 8)))
      ELSE NilPointer(W64Zero)

extractScaledUint16(value, sn, sd) ==
    IF Len(value) >= 2
      THEN PointerTo(Float(FALSE, FoldBytes(W64Zero, SubSeq(value, 1, 2)), sn, sd, 0))
      ELSE NilPointer(NilValue)

\* int16(u): two's complement of the 16-bit pattern
extractScaledInt16(value, sn, sd) ==
    IF Len(value) < 2 THEN NilPointer(NilValue)
    ELSE LET u == value[1] * 256 + value[2]
             v == IF u >= 32768 THEN u - 65536 ELSE u
         IN  PointerTo(Float(v < 0, W64OfInt(IF v < 0 THEN 0 - v ELSE v), sn, sd, 0))

\* a signed integer: the sign and the magnitude in a word
Signed(neg, mag) == [neg |-> neg, mag |-> mag]

RECURSIVE Increment(_)
\* bs + 1 within the width of bs
Increment(bs) ==
    IF bs = <<>> THEN <<>>
    ELSE IF bs[Len(bs)] = 255 THEN Increment(SubSeq(bs, 1, Len(bs) - 1)) \o <<0>>
    ELSE SubSeq(bs, 1, Len(bs) - 1) \o <<bs[Len(bs)] + 1>>

\* the conversions int8(u), int32(u), int64(u) of the unsigned number the
\* bytes bs hold: the same bits read as two's complement
ToSigned(bs) ==
    IF bs[1] < 128 THEN Signed(FALSE, FoldBytes(W64Zero, bs))
    ELSE Signed(TRUE, FoldBytes(W64Zero, Increment([i \in 1..Len(bs) |-> 255 - bs[i]])))

\* extractInt8 without the conversion to int8
extractInt8Unsigned(value) ==
    IF Len(value) >= 1
      THEN PointerTo(Signed(FALSE, W64FromByte(value[1])))
      ELSE NilPointer(Signed(FALSE, W64Zero))

extractInt8(value) ==
    IF Len(value) >= 1
      THEN PointerTo(ToSigned(SubSeq(value, 1, 1)))
      ELSE NilPointer(Signed(FALSE, W64Zero))

extractInt32(value) ==
    IF Len(value) >= 4
      THEN PointerTo(ToSigned(SubSeq(value, 1, 4)))
      ELSE NilPointer(Signed(FALSE, W64Zero))

extractInt64(value) ==
    IF Len(value) >= 8
      THEN PointerTo(ToSigned(SubSeq(value, 1, 8)))
      ELSE NilPointer(Signed(FALSE, W64Zero))

extractScaledUint8(value, sn, sd) ==
    IF Len(value) >= 1
      THEN PointerTo(Float(FALSE, W64FromByte(value[1]), sn, sd, 0))
      ELSE NilPointer(NilValue)

extractScaledUint16WithOffset(value, sn, sd, offset) ==
    IF Len(value) >= 2
      THEN PointerTo(Float(FALSE, FoldBytes(W64Zero, SubSeq(value, 1, 2)), sn, sd, offset))
      ELSE NilPointer(NilValue)

extractScaledUint32(value, sn, sd) ==
    IF Len(value) >= 4
      THEN PointerTo(Float(FALSE, FoldBytes(W64Zero, SubSeq(value, 1, 4)), sn, sd, 0))
      ELSE NilPointer(NilValue)

extractScaledInt32(value, sn, sd) ==
    IF Len(value) < 4 THEN NilPointer(NilValue)
    ELSE PointerTo(Float(ToSigned(SubSeq(value, 1, 4)).neg,
                         ToSigned(SubSeq(value, 1, 4)).mag, sn, sd, 0))

HexDigits == <<"0", "1", "2", "3", "4", "5", "6", "7",
               "8", "9", "A", "B", "C", "D", "E", "F">>

RECURSIVE SprintfX(_)
\* fmt.Sprintf("%X", value): two upper-case digits per byte
SprintfX(value) ==
    IF value = <<>> THEN <<>>
    ELSE <<HexDigits[(Head(value) \div 16) + 1], HexDigits[(Head(value) % 16) + 1]>>
         \o SprintfX(Tail(value))

extractHex(value) ==
    IF Len(value) > 0 THEN HexPtr(SprintfX(value)) ELSE NilPtr

----------------------------------------------------------------------------
(* The registry tagMeta (its declaration is not among the sources: the ids  *)
(* and ranges below are those of MISB ST 0601 for the tags modelled).       *)

KnownTags == {1, 2, 3, 5, 6, 8, 21, 48, 57}

W64Max == <<255, 255, 255, 255, 255, 255, 255, 255>>

MinValue(tag) ==
    CASE tag = 6 -> FloatOfInt(0 - 20)
      [] OTHER -> FloatOfInt(0)

MaxValue(tag) ==
    CASE tag = 1 -> FloatOfInt(65535)
      [] tag = 2 -> FloatOfWord(W64Max)
      [] tag = 5 -> FloatOfInt(360)
      [] tag = 6 -> FloatOfInt(20)
      [] tag = 8 -> FloatOfInt(255)
      [] tag = 21 -> FloatOfInt(5000000)
      [] tag = 57 -> FloatOfInt(5000000)
      [] OTHER -> FloatOfInt(0)

tagMetaInit == [t \in KnownTags |-> NilValue]

----------------------------------------------------------------------------
(* Bounds validation *)

\* tolerance = 0.00001 = 1 / TolDen
TolDen == 100000

RECURSIVE SeqLess(_, _)
\* a < b for two words read as unsigned numbers
SeqLess(a, b) ==
    IF a = <<>> THEN FALSE
    ELSE IF Head(a) # Head(b) THEN Head(a) < Head(b)
    ELSE SeqLess(Tail(a), Tail(b))

Integral(v) == v.sn = 1 /\ v.sd = 1 /\ v.off = 0

\* a magnitude in 9 bytes
Mag9(m) == IF Len(m) = 9 THEN m ELSE <<0>> \o m

\* a < b for two integral floats
IntLess(a, b) ==
    IF a.neg /\ ~b.neg THEN a.mag # W64Zero \/ b.mag # W64Zero
    ELSE IF ~a.neg /\ b.neg THEN FALSE
    ELSE IF a.neg THEN SeqLess(Mag9(b.mag), Mag9(a.mag))
    ELSE SeqLess(Mag9(a.mag), Mag9(b.mag))

\* numerator of v over the denominator v.sd (magnitude below 2^16)
Numer(v) == (IF v.neg THEN 0 - W64Int(v.mag) ELSE W64Int(v.mag)) * v.sn + v.off * v.sd

SmallInt(v) == IF v.neg THEN 0 - W64Int(v.mag) ELSE W64Int(v.mag)

\* value < lo - tolerance.  For an integer difference d and a denominator
\* sd: d / sd > 1 / TolDen  iff  d > sd \div TolDen.
BelowMin(value, lo) ==
    IF Integral(value) THEN IntLess(value, lo)
    ELSE SmallInt(lo) * value.sd - Numer(value) > value.sd \div TolDen

\* value > hi + tolerance
AboveMax(value, hi) ==
    IF Integral(value) THEN IntLess(hi, value)
    ELSE Numer(value) - SmallInt(hi) * value.sd > value.sd \div TolDen

\* checkBounds with the comparison against MinValue left out
checkBoundsUpperOnly(tag, value) ==
    tag \in KnownTags /\ ~AboveMax(value, MaxValue(tag))

\* checkBounds(tag, value)
checkBounds(tag, value) ==
    IF tag \notin KnownTags THEN FALSE
    ELSE IF BelowMin(value, MinValue(tag)) \/ AboveMax(value, MaxValue(tag)) THEN FALSE
    ELSE TRUE

\* processValue(tag, value, extractor): the registry after the call.  The
\* extractor closure has no effect but its result, so the operator takes
\* extractedValue = extractor(value) in place of the two.
processValue(meta, tag, extractedValue) ==
    IF tag \notin DOMAIN meta THEN meta
    ELSE IF extractedValue.nil THEN meta
    ELSE IF ~checkBounds(tag, extractedValue.val) THEN meta
    ELSE [meta EXCEPT ![tag] = extractedValue.val]

\* meta := tagMeta[tag]; if meta != nil { meta.Value = val }
assignValue(meta, tag, val) ==
    IF tag \in DOMAIN meta THEN [meta EXCEPT ![tag] = val] ELSE meta

\* if v := extract(val); v != nil { c := float64(*v); return &c }; return nil
FloatOrNil(p) == IF p.nil THEN NilPointer(NilValue) ELSE PointerTo(FloatOfWord(p.val))

\* The tags of processTag's switch that the model dispatches; the other
\* cases of the switch (9 .. 143) repeat these decode kinds and are not fed.
DispatchTags == {1, 2, 3, 5, 6, 8, 21, 48, 57}

\* processTag(tag, value): the registry after the call
processTag(meta, tag, value) ==
    CASE tag = 1 ->
           processValue(meta, tag, FloatOrNil(extractUint16(value)))
      [] tag = 2 ->
           processValue(meta, tag, FloatOrNil(extractUint64(value)))
      [] tag = 3 -> assignValue(meta, tag, Str(value))
      [] tag = 5 ->
           processValue(meta, tag, extractScaledUint16(value, 360, 65535))
      [] tag = 6 ->
           processValue(meta, tag, extractScaledInt16(value, 40, 65535))
      [] tag = 8 ->
           processValue(meta, tag, FloatOrNil(extractUint8(value)))
      [] tag = 21 ->
           IF ~extractUint32(value).nil
             THEN assignValue(meta, tag, FloatOfWord(extractUint32(value).val))
             ELSE meta
      [] tag = 48 -> assignValue(meta, tag, extractHex(value))
      [] tag = 57 ->
           processValue(meta, tag, FloatOrNil(extractUint32(value)))
      [] OTHER -> meta

----------------------------------------------------------------------------
(* The tag walk *)

RECURSIVE walk(_, _, _, _, _)

\* one round of the loop: the record with id tag whose length and value
\* extractTagValue returned as r
walkRecord(meta, valueBytes, index, parsedTags, dispatched, tag, r) ==
    IF r.panic
      THEN [panic |-> TRUE, meta |-> meta, parsedTags |-> parsedTags,
            dispatched |-> dispatched, index |-> r.index]
      ELSE walk(processTag(meta, tag, r.tagValue), valueBytes, r.index,
                IF tag \in DOMAIN meta THEN parsedTags \cup {tag}
                                       ELSE parsedTags,
                Append(dispatched,
                       [tag |-> tag, value |-> r.tagValue, ok |-> r.ok,
                        from |-> index, to |-> r.index]))

\* the walk giving up at the first tag id without a dispatch entry
walkStopAtUnknown(meta, valueBytes, index, parsedTags, dispatched) ==
    IF ~(index < Len(valueBytes)) \/ valueBytes[index + 1] \notin DispatchTags
      THEN [panic |-> FALSE, meta |-> meta, parsedTags |-> parsedTags,
            dispatched |-> dispatched, index |-> index]
      ELSE walkRecord(meta, valueBytes, index, parsedTags, dispatched,
                      valueBytes[index + 1], extractTagValue(valueBytes, index + 1))

\* the loop of parseMetadata from cursor index on.  parsedTags is the key
\* set of the map; dispatched lists the processTag calls made.
walk(meta, valueBytes, index, parsedTags, dispatched) ==
    IF ~(index < Len(valueBytes))
      THEN [panic |-> FALSE, meta |-> meta, parsedTags |-> parsedTags,
            dispatched |-> dispatched, index |-> index]
      ELSE walkRecord(meta, valueBytes, index, parsedTags, dispatched,
                      valueBytes[index + 1], extractTagValue(valueBytes, index + 1))

\* the callback handed the values of a registry no parser has written to
callbackOfFreshRegistry(w) ==
    [panic |-> w.panic, called |-> ~w.panic, meta |-> w.meta,
     ids |-> w.parsedTags, vals |-> [t \in w.parsedTags |-> tagMetaInit[t]],
     ptrs |-> [t \in w.parsedTags |-> t],
     dispatched |-> w.dispatched, index |-> w.index]

\* the callback handed a map of copies of the descriptors: records that are
\* not in the registry (0 - 1 is no registry key)
callbackOfCopies(w) ==
    [panic |-> w.panic, called |-> ~w.panic, meta |-> w.meta,
     ids |-> w.parsedTags, vals |-> [t \in w.parsedTags |-> w.meta[t]],
     ptrs |-> [t \in w.parsedTags |-> 0 - 1],
     dispatched |-> w.dispatched, index |-> w.index]

\* p.callback(parsedTags) after the walk w.  The map's entries are the
\* pointers the registry holds: ptrs[t] is the registry key whose descriptor
\* the entry for t points to, vals[t] what the callback reads through it,
\* which is the value the registry has after the whole walk.
callback(w) ==
    [panic |-> w.panic, called |-> ~w.panic, meta |-> w.meta,
     ids |-> w.parsedTags, vals |-> [t \in w.parsedTags |-> w.meta[t]],
     ptrs |-> [t \in w.parsedTags |-> t],
     dispatched |-> w.dispatched, index |-> w.index]

\* parseMetadata(valueBytes): the walk, then the callback
parseMetadata(meta, valueBytes) == callback(walk(meta, valueBytes, 0, {}, <<>>))

NoWalk(meta) ==
    [panic |-> FALSE, called |-> FALSE, meta |-> meta, ids |-> {},
     vals |-> [t \in {} |-> NilValue], ptrs |-> [t \in {} |-> 0],
     dispatched |-> <<>>, index |-> 0]

\* klvValue := klvPacket[valueStart : valueStart+length]; p.parseMetadata(klvValue)
parseValue(meta, g, end, klvValue) ==
    [error |-> FALSE, walked |-> TRUE, valueStart |-> g.valueStart,
     payloadEnd |-> end.val, payload |-> klvValue,
     w |-> parseMetadata(meta, klvValue)]

\* parseKLVPacket behind getValueStartAndLength, which returned g:
\* expectedTotalLength is 16 + 1 + length, end is valueStart+length
parseChecked(meta, klvPacket, g, expectedTotalLength, end) ==
    IF g.panic
      THEN [error |-> FALSE, walked |-> FALSE, valueStart |-> g.valueStart,
            payloadEnd |-> 0, payload |-> <<>>,
            w |-> [NoWalk(meta) EXCEPT !.panic = TRUE]]
    ELSE IF I64Gt(expectedTotalLength, klvPacket.len)
      THEN [error |-> TRUE, walked |-> FALSE, valueStart |-> g.valueStart,
            payloadEnd |-> 0, payload |-> <<>>, w |-> NoWalk(meta)]
    ELSE IF end.cls # "small" \/ ~SliceOK(klvPacket, g.valueStart, end.val)
      THEN [error |-> FALSE, walked |-> FALSE, valueStart |-> g.valueStart,
            payloadEnd |-> 0, payload |-> <<>>,
            w |-> [NoWalk(meta) EXCEPT !.panic = TRUE]]
    ELSE parseValue(meta, g, end,
                    SliceBytes(SubSlice(klvPacket, g.valueStart, end.val)))

parseLength(meta, klvPacket, g) ==
    parseChecked(meta, klvPacket, g,
                 I64Plus(g.length, 16 + 1), I64Plus(g.length, g.valueStart))

\* parseKLVPacket(klvPacket): error = TRUE when it returns an error.
\* payloadEnd is valueStart+length, the end of the slice it walks.
parseKLVPacket(meta, klvPacket) ==
    IF klvPacket.len < 17
      THEN [error |-> TRUE, walked |-> FALSE, valueStart |-> 0, payloadEnd |-> 0,
            payload |-> <<>>, w |-> NoWalk(meta)]
      ELSE parseLength(meta, klvPacket, getValueStartAndLength(klvPacket))

----------------------------------------------------------------------------
(* The framer *)

\* bytes.Index taken to answer only whether sep occurs: 0 when it does
bytesIndexAtStart(s, sep) ==
    IF \E i \in 0..(Len(s) - Len(sep)) : SubSeq(s, i + 1, i + Len(sep)) = sep
      THEN 0
      ELSE 0 - 1

\* bytes.Index(s, sep): the 0-based index of the first occurrence, or -1
bytesIndex(s, sep) ==
    LET n == Len(s) - Len(sep)
        At(i) == s[i + 1] = sep[1] /\ SubSeq(s, i + 1, i + Len(sep)) = sep
    IN  IF \E i \in 0..n : At(i)
          THEN CHOOSE i \in 0..n : At(i) /\ \A j \in 0..(i - 1) : ~At(j)
          ELSE 0 - 1

\* extractKLVPacket from the check len(data) < totalPacketSize on; info is
\* the answer "no packet yet"
slicePacket(data, c, totalPacketSize, info) ==
    IF c.panic THEN info
    ELSE IF I64Gt(totalPacketSize, data.len) THEN info
    ELSE IF I64Neg(totalPacketSize) THEN [info EXCEPT !.panic = TRUE]
    ELSE [info EXCEPT !.extracted = TRUE,
                      !.total = totalPacketSize.val,
                      !.packet = MkSlice(data.arr, totalPacketSize.val, data.cap),
                      !.remainingData = SubSlice(data, totalPacketSize.val, data.len)]

\* extractKLVPacket behind calculatePacketLength, which returned c
framePacket(data, c) ==
    slicePacket(data, c, I64Plus(c.packetLength, 16 + c.lengthFieldSize),
                [panic |-> c.panic, extracted |-> FALSE, err |-> Nil,
                 long |-> ArrAt(data, 16) >= 128,
                 count |-> IF ArrAt(data, 16) >= 128 THEN c.lengthFieldSize ELSE 0,
                 over |-> c.over, total |-> 0, avail |-> data.len,
                 packet |-> data, remainingData |-> data])

\* extractKLVPacket(data) -> (packet, remainingData, err).  extracted = FALSE
\* is the nil packet; err is always nil.  total is totalPacketSize when a
\* packet is extracted.
extractKLVPacket(data) ==
    IF data.len < 17
      THEN [panic |-> FALSE, extracted |-> FALSE, err |-> Nil, long |-> FALSE,
            count |-> 0, over |-> FALSE, total |-> 0, avail |-> data.len,
            packet |-> data, remainingData |-> data]
      ELSE framePacket(data, calculatePacketLength(data))

\* what the histories keep of one extractKLVPacket invocation
FrameInfo(x) ==
    [avail |-> x.avail, long |-> x.long, count |-> x.count, over |-> x.over,
     extracted |-> x.extracted, total |-> x.total, panic |-> x.panic]

NoFrame ==
    [avail |-> 0, long |-> FALSE, count |-> 0, over |-> FALSE,
     extracted |-> FALSE, total |-> 0, panic |-> FALSE]

RECURSIVE chunkLoop(_)

\* the loop body returning after the first packet instead of going round again
parsedOnce(st, x, p) ==
    [st EXCEPT !.buffer = x.remainingData.arr,
               !.bufCap = x.remainingData.cap,
               !.meta = p.w.meta,
               !.panicked = p.w.panic,
               !.frame = FrameInfo(x),
               !.framed = Append(st.framed,
                                 [packet |-> SliceBytes(x.packet), frame |-> FrameInfo(x),
                                  error |-> p.error, walked |-> p.walked,
                                  valueStart |-> p.valueStart,
                                  payloadEnd |-> p.payloadEnd,
                                  payload |-> p.payload,
                                  dispatched |-> p.w.dispatched,
                                  panic |-> p.w.panic]),
               !.calls = IF p.w.called
                           THEN Append(st.calls, [pkt |-> Len(st.framed) + 1,
                                                  ids |-> p.w.ids, vals |-> p.w.vals,
                                                  ptrs |-> p.w.ptrs])
                           ELSE st.calls]

\* the loop body behind p.parseKLVPacket(packet), which did p on the packet
\* of the extraction x: p.buffer = remainingData, and round the loop again
parsed(st, x, p) ==
    LET f == [packet |-> SliceBytes(x.packet), frame |-> FrameInfo(x),
              error |-> p.error, walked |-> p.walked,
              valueStart |-> p.valueStart, payloadEnd |-> p.payloadEnd,
              payload |-> p.payload, dispatched |-> p.w.dispatched,
              panic |-> p.w.panic]
        c == [pkt |-> Len(st.framed) + 1, ids |-> p.w.ids, vals |-> p.w.vals,
              ptrs |-> p.w.ptrs]
    IN  IF p.w.panic
          THEN [st EXCEPT !.panicked = TRUE, !.frame = FrameInfo(x),
                          !.framed = Append(st.framed, f)]
        ELSE IF /\ x.remainingData.arr = st.buffer
                /\ x.remainingData.cap = st.bufCap
                /\ p.w.meta = st.meta
          \* the next round starts from the buffer and the registry this one
          \* started from: the loop goes round for ever
          THEN [st EXCEPT !.spinning = TRUE, !.frame = FrameInfo(x),
                          !.framed = Append(st.framed, f),
                          !.calls = IF p.w.called THEN Append(st.calls, c)
                                                  ELSE st.calls]
          ELSE chunkLoop([st EXCEPT !.buffer = x.remainingData.arr,
                                    !.bufCap = x.remainingData.cap,
                                    !.meta = p.w.meta,
                                    !.frame = FrameInfo(x),
                                    !.framed = Append(st.framed, f),
                                    !.calls = IF p.w.called THEN Append(st.calls, c)
                                                            ELSE st.calls])

\* the loop body behind p.extractKLVPacket, which returned x
extracted(st, x) ==
    IF x.panic THEN [st EXCEPT !.panicked = TRUE, !.frame = FrameInfo(x)]
    ELSE IF ~x.extracted THEN [st EXCEPT !.frame = FrameInfo(x)]
    ELSE parsed(st, x, parseKLVPacket(st.meta, x.packet))

\* the loop body behind bytes.Index, which returned startIndex
indexed(st, startIndex) ==
    IF startIndex = 0 - 1 THEN st
    ELSE extracted(st, extractKLVPacket(
                         MkSlice(SubSeq(st.buffer, startIndex + 1, Len(st.buffer)),
                                 Len(st.buffer) - startIndex,
                                 st.bufCap - startIndex)))

\* the for loop of ProcessChunk on a parser state st
chunkLoop(st) == indexed(st, bytesIndex(st.buffer, MISB0601UL))

\* capacity after append(p.buffer, chunk...) needs `needed` elements: the
\* runtime's growth rule, without the rounding up to an allocation size class
GrowCap(cap, needed) ==
    IF needed <= cap THEN cap
    ELSE IF needed > 2 * cap THEN needed
    ELSE IF cap < 256 THEN 2 * cap
    ELSE IF cap + (cap + 768) \div 4 >= needed THEN cap + (cap + 768) \div 4
    ELSE needed

\* ProcessChunk(chunk) on parser state st; its return value is in .err
ProcessChunk(st, chunk) ==
    chunkLoop([st EXCEPT !.buffer = st.buffer \o chunk,
                         !.bufCap = GrowCap(st.bufCap, Len(st.buffer) + Len(chunk)),
                         !.err = Nil])

\* NewKLVParser: make([]byte, 0, 1024)
InitCap == 1024

NewKLVParser ==
    [buffer |-> <<>>, bufCap |-> InitCap, meta |-> tagMetaInit, calls |-> <<>>,
     framed |-> <<>>, frame |-> NoFrame, panicked |-> FALSE, spinning |-> FALSE,
     err |-> Nil]

----------------------------------------------------------------------------
(* The caller: a stream of packets and garbage, fed in chunks *)

\* a packet on the wire: the key, a length field, a payload
Pkt(lengthField, payload) == MISB0601UL \o lengthField \o payload

Garbage == <<170, 6, 14>>

Pieces ==
    { Garbage,
      Pkt(<<3>>, <<8, 1, 42>>),              \* short form, tag 8 = 42
      Pkt(<<0>>, <<>>),                      \* short form, empty payload
      Pkt(<<4>>, <<6, 2, 128, 0>>),          \* tag 6 with a value below its range
      Pkt(<<129, 3>>, <<8, 1, 7>>),          \* long form, one length byte
      Pkt(<<128>>, <<>>),                    \* long form announcing no length byte
      Pkt(<<129, 0>>, <<>>),                 \* long form, empty payload
      \* long form, 8 length bytes for which 16 + 8 + int(length) is 0
      Pkt(<<136, 255, 255, 255, 255, 255, 255, 255, 232>>, <<>>) }

MaxPieces == 2
MaxChunk == 3

RECURSIVE Concat(_)
Concat(ss) == IF ss = <<>> THEN <<>> ELSE Head(ss) \o Concat(Tail(ss))

Streams ==
    { Concat(ps) : ps \in UNION { [1..n -> Pieces] : n \in 0..MaxPieces } }

ParserState ==
    [buffer |-> buffer, bufCap |-> bufCap, meta |-> tagMeta, calls |-> calls,
     framed |-> framed, frame |-> frame, panicked |-> panicked,
     spinning |-> spinning, err |-> err]

ParserInit ==
    /\ buffer = NewKLVParser.buffer
    /\ bufCap = NewKLVParser.bufCap
    /\ tagMeta = tagMetaInit
    /\ calls = <<>>
    /\ framed = <<>>
    /\ frame = NoFrame
    /\ panicked = FALSE
    /\ spinning = FALSE
    /\ err = Nil

\* a sum that was not computed
NoSum == [cls |-> "none", val |-> 0]

NoResult ==
    [ok |-> FALSE, panic |-> FALSE, length |-> W64Zero, size |-> 0, value |-> <<>>,
     index |-> 0, total |-> NoSum]

FeedIdle == stream = <<>> /\ pos = 0
ResyncIdle == garbageLen = 0 /\ ref = NewKLVParser /\ stream2 = <<>> /\ pos2 = 0
CodecIdle == cData = <<>> /\ cOp = "none" /\ cRes = NoResult
DispatchIdle == dTag = 0 /\ dValue = <<>> /\ dCount = 0 /\ prevMeta = tagMetaInit
WalkIdle == wRecords = <<>> /\ wPayload = <<>> /\ wRes = NoWalk(tagMetaInit)

Init ==
    /\ stream \in Streams
    /\ pos = 0
    /\ ParserInit
    /\ ResyncIdle /\ CodecIdle /\ DispatchIdle /\ WalkIdle

\* the chunk sizes the caller may pick with rem bytes of the stream left:
\* anything up to MaxChunk, or all that is left
ChunkSizes(rem) == (0..Min(rem, MaxChunk)) \cup {rem}

\* the parser becomes st
Becomes(st) ==
    /\ buffer' = st.buffer
    /\ bufCap' = st.bufCap
    /\ tagMeta' = st.meta
    /\ calls' = st.calls
    /\ framed' = st.framed
    /\ frame' = st.frame
    /\ panicked' = st.panicked
    /\ spinning' = st.spinning
    /\ err' = st.err

\* the effect of p.ProcessChunk(chunk) on the parser
Call(chunk) == Becomes(ProcessChunk(ParserState, chunk))

\* the caller hands the next n bytes of the stream to ProcessChunk
Feed ==
    /\ ~panicked /\ ~spinning
    /\ \E n \in ChunkSizes(Len(stream) - pos) :
         /\ pos' = pos + n
         /\ Call(SubSeq(stream, pos + 1, pos + n))
    /\ UNCHANGED <<stream, resyncVars, codecVars, dispatchVars, prevMeta, walkVars>>

Next == Feed

Spec == Init /\ [][Next]_vars

\* the bytes b[1..n] read as a big-endian unsigned number, in a 64-bit word
BigEndian(bs) == [i \in 1..8 |-> IF i + Len(bs) > 8 THEN bs[i + Len(bs) - 8] ELSE 0]

\* all input has been fed, or the program has died
Finished == pos = Len(stream) \/ panicked \/ spinning

\* what the caller saw: the snapshots, in order
Snapshots(cs) == [i \in 1..Len(cs) |-> [ids |-> cs[i].ids, vals |-> cs[i].vals]]

\* the same stream fed in a single ProcessChunk call
OneCall(s) == ProcessChunk(NewKLVParser, s)

----------------------------------------------------------------------------
(* Claims about the framer, checked under Spec *)

\* C1: however the stream is split into chunks, once all of it has been fed
\* the callback has been invoked as often, with the same tag ids and values
\* in the same order, as when the whole stream is fed in one ProcessChunk call.
C1_ChunkingInvariant ==
    Finished => Snapshots(calls) = Snapshots(OneCall(stream).calls)

\* C3: the callback is invoked exactly once for every packet the framer
\* slices out of the buffer, in the order of the packets.
C3_OneCallbackPerFramedPacket ==
    /\ Len(calls) = Len(framed)
    /\ \A i \in 1..Len(calls) : calls[i].pkt = i

\* an extractKLVPacket invocation that found a long-form length byte with
\* fewer than count bytes buffered behind it
ShortLengthField(f) == f.long /\ f.avail < 17 + f.count

\* C6: a long-form length field whose count bytes are not all buffered is
\* insufficient data: nothing past the buffered bytes is read, no packet is
\* extracted, no callback is made (and the program goes on).
C6_IncompleteLengthFieldWaits ==
    /\ ShortLengthField(frame) => ~frame.over /\ ~frame.extracted /\ ~frame.panic
    /\ \A i \in 1..Len(framed) : ~ShortLengthField(framed[i].frame)

\* C7: a packet whose payload is walked is at least 16 + field_size +
\* payload_length bytes long, all of them received, so the payload walked
\* lies inside the packet slice.
C7_WalkedPayloadInsidePacket ==
    \A i \in 1..Len(framed) :
        framed[i].walked =>
            /\ Len(framed[i].packet) <= framed[i].frame.avail
            /\ Len(framed[i].packet) >=
                   16 + (framed[i].valueStart - 16)
                      + (framed[i].payloadEnd - framed[i].valueStart)
            /\ framed[i].payloadEnd <= Len(framed[i].packet)

\* C16: every ProcessChunk call comes to an end: the loop does not go
\* round for ever, every packet it extracts takes at least one byte off the
\* buffer, and every round of the tag walk moves the cursor forward.
C16_EveryCallTerminates ==
    /\ ~spinning
    /\ \A i \in 1..Len(framed) :
         /\ framed[i].frame.total >= 1
         /\ \A j \in 1..Len(framed[i].dispatched) :
              framed[i].dispatched[j].to > framed[i].dispatched[j].from

\* packets on which parseKLVPacket returns an error
ParseFailing ==
    { Pkt(<<128>>, <<>>),
      Pkt(<<136, 255, 255, 255, 255, 255, 255, 255, 232>>, <<>>) }

\* complete short-form packets
ShortFormPackets ==
    { Pkt(<<3>>, <<8, 1, 42>>), Pkt(<<0>>, <<>>), Pkt(<<4>>, <<6, 2, 128, 0>>) }

\* C17: when a packet on which parseKLVPacket fails is followed by a
\* complete valid packet, ProcessChunk returns (no panic, no endless loop)
\* with a nil error, and once the valid packet has been fed its snapshot has
\* been delivered and no packet is left in the buffer.
C17_ParseFailureSkipped ==
    \A bad \in ParseFailing, good \in ShortFormPackets :
        stream = bad \o good =>
            /\ err = Nil /\ ~panicked /\ ~spinning
            /\ pos = Len(stream) =>
                 /\ Snapshots(calls) = Snapshots(OneCall(good).calls)
                 /\ bytesIndex(buffer, MISB0601UL) = 0 - 1

\* single valid packets, short form and long form
ValidPackets ==
    ShortFormPackets \cup { Pkt(<<129, 3>>, <<8, 1, 7>>), Pkt(<<129, 0>>, <<>>) }

\* C18: ProcessChunk's error is nil for every input; while only a proper
\* prefix of a packet has been fed no callback has been made and the bytes
\* are all in the buffer, and once the rest has been fed the packet's
\* snapshot has been delivered.
C18_PrefixWaits ==
    /\ err = Nil
    /\ stream \in ValidPackets =>
         /\ ~panicked
         /\ pos < Len(stream) => calls = <<>> /\ buffer = SubSeq(stream, 1, pos)
         /\ pos = Len(stream) => Len(calls) = 1

\* the bytes d, which start with the key, hold a whole packet: the length
\* field is there and as many bytes follow it as it declares
Complete(d) ==
    /\ Len(d) >= 17
    /\ IF d[17] < 128 THEN Len(d) >= 17 + d[17]
       ELSE /\ d[17] % 128 <= 8
            /\ Len(d) >= 17 + (d[17] % 128)
            /\ W64Small(BigEndian(SubSeq(d, 18, 17 + (d[17] % 128))))
            /\ Len(d) >= 17 + (d[17] % 128)
                         + W64Int(BigEndian(SubSeq(d, 18, 17 + (d[17] % 128))))

\* s from its first occurrence of the key on (<<>> when there is none)
FromKey(s) ==
    IF bytesIndex(s, MISB0601UL) = 0 - 1 THEN <<>>
    ELSE SubSeq(s, bytesIndex(s, MISB0601UL) + 1, Len(s))

\* C20: after every return of ProcessChunk the buffer has no sync key, or
\* fewer bytes from its first key on than the packet there declares; a call
\* that brings no new bytes slices no packet out of it.
C20_NoCompletePacketAtRest ==
    (~panicked /\ ~spinning) =>
        /\ ~Complete(FromKey(buffer))
        /\ Len(ProcessChunk(ParserState, <<>>).framed) = Len(framed)

\* a stream of two packets has been fed and both have been taken off the
\* buffer
C20_Witness ==
    /\ ~panicked /\ ~spinning
    /\ pos = Len(stream)
    /\ Len(calls) = 2
    /\ Len(stream) >= 34
    /\ buffer = <<>>

----------------------------------------------------------------------------
(* Resynchronisation: the stream led by garbage, and beside the parser a    *)
(* second one (ref, with a registry of its own) that is handed the same     *)
(* chunks without the garbage bytes.                                        *)

\* byte strings that do not contain the key: a stray byte, the key less its
\* last byte, the key with its last byte changed, the tail of the key
Garbages ==
    { <<170>>,
      SubSeq(MISB0601UL, 1, 15),
      SubSeq(MISB0601UL, 1, 15) \o <<1>>,
      SubSeq(MISB0601UL, 2, 16) }

MaxResyncPieces == 1

\* one to MaxResyncPieces pieces behind the garbage
ResyncStreams ==
    { Concat(ps) : ps \in UNION { [1..n -> Pieces] : n \in 1..MaxResyncPieces } }

InitResync ==
    /\ \E g \in Garbages, s \in ResyncStreams :
         /\ stream = g \o s
         /\ garbageLen = Len(g)
    /\ pos = 0
    /\ ParserInit
    /\ ref = NewKLVParser
    /\ stream2 = <<>> /\ pos2 = 0
    /\ CodecIdle /\ DispatchIdle /\ WalkIdle

Max(a, b) == IF a > b THEN a ELSE b

\* the parser gets the next n bytes, ref the part of them behind the garbage
FeedResync ==
    /\ ~panicked /\ ~spinning
    /\ \E n \in ChunkSizes(Len(stream) - pos) :
         /\ pos' = pos + n
         /\ Call(SubSeq(stream, pos + 1, pos + n))
         /\ ref' = IF ref.panicked \/ ref.spinning THEN ref
                   ELSE ProcessChunk(ref, SubSeq(stream, Max(pos, garbageLen) + 1, pos + n))
    /\ UNCHANGED <<stream, garbageLen, stream2, pos2, codecVars, dispatchVars,
                   prevMeta, walkVars>>

NextResync == FeedResync

SpecResync == InitResync /\ [][NextResync]_vars

\* C2: garbage without the key in front of the packets is skipped without an
\* error, and the callback receives the same snapshots as the parser that
\* never saw the garbage.
C2_GarbageSkipped ==
    /\ err = Nil
    /\ panicked = ref.panicked
    /\ Snapshots(calls) = Snapshots(ref.calls)

\* a packet behind the garbage has been delivered with a decoded tag
C2_Witness ==
    /\ garbageLen > 0
    /\ pos = Len(stream)
    /\ Len(calls) > 0
    /\ \E t \in calls[1].ids : calls[1].vals[t] # NilValue

\* C21: after ProcessChunk has returned with a sync key in the buffer, the
\* buffer begins with that key: the bytes in front of it have been discarded,
\* also when the packet at the key is still incomplete.
C21_BufferBeginsWithKey ==
    (~panicked /\ ~spinning /\ bytesIndex(buffer, MISB0601UL) # 0 - 1)
        => bytesIndex(buffer, MISB0601UL) = 0

----------------------------------------------------------------------------
(* The length decoders on their own: a length field and what follows it is  *)
(* put behind the key (for the packet-level decoders) or taken as the rest  *)
(* of a payload behind a tag byte (for extractTagValue).                    *)

MaxCount == 8        \* most length bytes of a long-form field
MaxFill == 300       \* longest value that is made to follow its length field

Fill(n) == [i \in 1..n |-> i % 256]

LengthBytes == {0, 1, 44}

\* the value of at most 8 length bytes, when it is small enough to be
\* followed by that many bytes
Follows(lb) ==
    LET w == FoldBytes(W64Zero, lb) IN
    IF W64Small(w) /\ W64Int(w) <= MaxFill THEN Fill(W64Int(w)) ELSE <<>>

\* long-form length fields at the ends of the 64-bit range: -24, -1, the
\* least and the greatest signed number, 2^32 - 1, and 9 length bytes whose
\* first is shifted out; each with two bytes behind it
ExtremeFields ==
    { <<136, 255, 255, 255, 255, 255, 255, 255, 232>>,
      <<136, 255, 255, 255, 255, 255, 255, 255, 255>>,
      <<136, 128, 0, 0, 0, 0, 0, 0, 0>>,
      <<136, 127, 255, 255, 255, 255, 255, 255, 255>>,
      <<132, 255, 255, 255, 255>>,
      <<137, 1, 0, 0, 0, 0, 0, 0, 0, 0>> }

CodecInputs ==
    { <<b>> \o Fill(b) : b \in 0..127 }
    \cup { <<b>> : b \in {5, 127} }
    \cup { <<128 + Len(lb)>> \o lb \o Follows(lb) :
             lb \in UNION { [1..n -> LengthBytes] : n \in 1..MaxCount } }
    \cup { f \o <<7, 9>> : f \in ExtremeFields }

InitCodec ==
    /\ cData \in CodecInputs
    /\ cOp = "none"
    /\ cRes = NoResult
    /\ FeedIdle /\ ParserInit /\ ResyncIdle /\ DispatchIdle /\ WalkIdle

\* the slice p.buffer[startIndex:] of a buffer that holds the key and cData
KeyedSlice == MkSlice(MISB0601UL \o cData, 16 + Len(cData), InitCap)

DecodePacketLength ==
    /\ cOp = "none"
    /\ cOp' = "calculatePacketLength"
    /\ LET r == calculatePacketLength(KeyedSlice) IN
       cRes' = [ok |-> ~r.panic, panic |-> r.panic, length |-> r.packetLength,
                size |-> r.lengthFieldSize, value |-> <<>>, index |-> 0,
                total |-> NoSum]
    /\ UNCHANGED <<feedVars, parserVars, resyncVars, cData, dispatchVars,
                   prevMeta, walkVars>>

DecodeValueStart ==
    /\ cOp = "none"
    /\ cOp' = "getValueStartAndLength"
    /\ LET r == getValueStartAndLength(KeyedSlice) IN
       cRes' = [ok |-> ~r.panic, panic |-> r.panic, length |-> r.length,
                size |-> r.valueStart - 16, value |-> <<>>, index |-> r.valueStart,
                total |-> NoSum]
    /\ UNCHANGED <<feedVars, parserVars, resyncVars, cData, dispatchVars,
                   prevMeta, walkVars>>

DecodeTagLength ==
    /\ cOp = "none"
    /\ cOp' = "extractTagValue"
    /\ LET r == extractTagValue(cData, 0)
           d == tagLength(cData, 0)
       IN  cRes' = [ok |-> r.ok, panic |-> r.panic,
                    length |-> IF r.ok THEN r.length ELSE d.length,
                    size |-> d.index, value |-> r.tagValue, index |-> r.index,
                    total |-> IF d.ok THEN I64Plus(d.length, d.index) ELSE NoSum]
    /\ UNCHANGED <<feedVars, parserVars, resyncVars, cData, dispatchVars,
                   prevMeta, walkVars>>

\* what extractKLVPacket did with the length c that calculatePacketLength
\* returned and came to as x; total is 16 + lengthFieldSize + int(packetLength)
ExtractResult(c, x) ==
    [ok |-> x.extracted, panic |-> x.panic, length |-> c.packetLength,
     size |-> c.lengthFieldSize,
     value |-> IF x.extracted THEN SliceBytes(x.packet) ELSE <<>>,
     index |-> IF x.extracted THEN x.remainingData.len ELSE 0,
     total |-> IF c.panic THEN NoSum
               ELSE I64Plus(c.packetLength, 16 + c.lengthFieldSize)]

ExtractPacket ==
    /\ cOp = "none"
    /\ cOp' = "extractKLVPacket"
    /\ cRes' = ExtractResult(calculatePacketLength(KeyedSlice), extractKLVPacket(KeyedSlice))
    /\ UNCHANGED <<feedVars, parserVars, resyncVars, cData, dispatchVars,
                   prevMeta, walkVars>>

NextCodec == DecodePacketLength \/ DecodeValueStart \/ DecodeTagLength \/ ExtractPacket

SpecCodec == InitCodec /\ [][NextCodec]_vars

C5_LongForm ==
    (cOp # "none" /\ cData[1] >= 128 /\ cData[1] % 128 \in 1..8) =>
        /\ cRes.length = BigEndian(SubSeq(cData, 2, 1 + (cData[1] % 128)))
        /\ cRes.size = 1 + (cData[1] % 128)

\* C24: extractTagValue returns a cursor that is not smaller than the one it
\* was passed (0 here) and not greater than the payload length, and the
\* value slice it takes has 0 <= start <= end <= payload length; this for
\* every length field, also one of 8 or more length bytes.
C24_TagCursorInBounds ==
    cOp = "extractTagValue" =>
        /\ ~cRes.panic
        /\ 0 <= cRes.index /\ cRes.index <= Len(cData)
        /\ (cRes.total.cls # "none" /\ ~I64Gt(cRes.total, Len(cData))) =>
               /\ cRes.total.cls = "small"
               /\ 0 <= cRes.size /\ cRes.size <= cRes.total.val
               /\ cRes.value = SubSeq(cData, cRes.size + 1, cRes.total.val)

\* C25: the total packet size extractKLVPacket computes from a long-form
\* length field is not negative and not smaller than 16, and the slices
\* data[:total] and data[total:] it takes lie within the buffered data.
C25_TotalSizeInRange ==
    (cOp = "extractKLVPacket" /\ cData[1] >= 128 /\ cRes.total.cls # "none") =>
        /\ ~I64Neg(cRes.total)
        /\ cRes.total.cls = "small" => cRes.total.val >= 16
        /\ ~cRes.panic
        /\ cRes.ok =>
               /\ cRes.value = SubSeq(MISB0601UL \o cData, 1, cRes.total.val)
               /\ cRes.index = 16 + Len(cData) - cRes.total.val

----------------------------------------------------------------------------
(* The dispatch on its own: processTag calls on the registry *)

MaxDispatch == 2

DispatchInputTags == DispatchTags \cup {250}

DispatchValues ==
    { <<>>, <<5>>, <<0, 100>>, <<128, 0>>, <<128, 1>>, <<127, 255>>,
      <<0, 76, 75, 64>>,                 \* 5000000
      <<0, 76, 75, 65>>,                 \* 5000001
      <<0, 0, 0, 0, 0, 1, 2, 3>> }

InitTag ==
    /\ tagMeta = tagMetaInit
    /\ buffer = <<>> /\ bufCap = InitCap /\ calls = <<>> /\ framed = <<>>
    /\ frame = NoFrame /\ panicked = FALSE /\ spinning = FALSE /\ err = Nil
    /\ DispatchIdle
    /\ FeedIdle /\ ResyncIdle /\ CodecIdle /\ WalkIdle

\* p.processTag(tag, value)
Dispatch ==
    /\ dCount < MaxDispatch
    /\ \E tag \in DispatchInputTags, value \in DispatchValues :
         /\ dTag' = tag
         /\ dValue' = value
         /\ prevMeta' = tagMeta
         /\ tagMeta' = processTag(tagMeta, tag, value)
    /\ dCount' = dCount + 1
    /\ UNCHANGED <<feedVars, buffer, bufCap, calls, framed, frame, panicked, spinning,
                   err,
                   resyncVars, codecVars, walkVars>>

NextTag == Dispatch

SpecTag == InitTag /\ [][NextTag]_vars

\* the tags whose case in processTag goes through processValue, and the
\* pointer their extractor returns for value
DecodedBy(tag, value) ==
    CASE tag = 1 -> FloatOrNil(extractUint16(value))
      [] tag = 2 -> FloatOrNil(extractUint64(value))
      [] tag = 5 -> extractScaledUint16(value, 360, 65535)
      [] tag = 6 -> extractScaledInt16(value, 40, 65535)
      [] tag = 8 -> FloatOrNil(extractUint8(value))
      [] tag = 57 -> FloatOrNil(extractUint32(value))
      [] OTHER -> NilPointer(NilValue)

\* v < min - 1e-5 or v > max + 1e-5 for the descriptor of tag
OutOfRange(tag, v) == BelowMin(v, MinValue(tag)) \/ AboveMax(v, MaxValue(tag))

\* C8: a decoded value outside [min - 1e-5, max + 1e-5] leaves the
\* descriptor's current value as it was before the dispatch; a value inside
\* overwrites it.  (Tag 6 has range [-20, 20] and decodes 80 00 to
\* -32768 * 40 / 65535 < -20; tag 57 has range [0, 5000000].)
C8_BoundsRejection ==
    (dCount > 0 /\ ~DecodedBy(dTag, dValue).nil) =>
        LET v == DecodedBy(dTag, dValue).val IN
        /\ OutOfRange(dTag, v) => tagMeta[dTag] = prevMeta[dTag]
        /\ ~OutOfRange(dTag, v) => tagMeta[dTag] = v
        /\ (dTag = 6 /\ dValue = <<128, 0>>) => tagMeta[dTag] = prevMeta[dTag]
        /\ (dTag = 6 /\ dValue = <<128, 1>>) => tagMeta[dTag] = v
        /\ (dTag = 57 /\ dValue = <<0, 76, 75, 65>>) => tagMeta[dTag] = prevMeta[dTag]
        /\ (dTag = 57 /\ dValue = <<0, 76, 75, 64>>) => tagMeta[dTag] = v

\* an out-of-range value was dispatched to a descriptor that held a value
C8_Witness ==
    /\ dCount = 2
    /\ dTag = 6
    /\ dValue = <<128, 0>>
    /\ prevMeta[6].kind = "float64"
    /\ tagMeta[6] = prevMeta[6]

\* C9: every numeric current value the dispatch has written lies within
\* [min - 1e-5, max + 1e-5] of its descriptor.
C9_WrittenValuesInBounds ==
    \A t \in KnownTags :
        tagMeta[t].kind = "float64" => ~OutOfRange(t, tagMeta[t])

----------------------------------------------------------------------------
(* The tag walk on its own: a payload built from records is handed to       *)
(* parseMetadata, on a fresh registry or on one an earlier packet has set.  *)

MaxRecords == 3

Rec(tag, lengthField, value) == [tag |-> tag, lengthField |-> lengthField, value |-> value]

\* well-formed records: the length field states the length of the value
Records ==
    { Rec(1, <<2>>, <<0, 100>>),
      Rec(2, <<8>>, <<0, 0, 0, 0, 0, 1, 2, 3>>),
      Rec(8, <<1>>, <<5>>),
      Rec(6, <<2>>, <<128, 0>>),
      Rec(3, <<129, 2>>, <<77, 49>>),
      Rec(250, <<1>>, <<0>>),
      Rec(250, <<0>>, <<>>),
      Rec(250, <<129, 3>>, <<8, 1, 9>>),
      Rec(144, <<2>>, <<1, 2>>) }

Encode(r) == <<r.tag>> \o r.lengthField \o r.value

RECURSIVE EncodeAll(_)
EncodeAll(rs) == IF rs = <<>> THEN <<>> ELSE Encode(Head(rs)) \o EncodeAll(Tail(rs))

\* the registry after an earlier packet with tags 1, 6 and 8
WarmMeta == parseMetadata(tagMetaInit, <<1, 2, 0, 7, 6, 2, 0, 9, 8, 1, 1>>).meta

InitWalk ==
    /\ wRecords \in UNION { [1..n -> Records] : n \in 0..MaxRecords }
    /\ wPayload = <<>>
    /\ wRes = NoWalk(tagMetaInit)
    /\ tagMeta \in {tagMetaInit, WarmMeta}
    /\ prevMeta = tagMetaInit
    /\ buffer = <<>> /\ bufCap = InitCap /\ calls = <<>> /\ framed = <<>>
    /\ frame = NoFrame /\ panicked = FALSE /\ spinning = FALSE /\ err = Nil
    /\ dTag = 0 /\ dValue = <<>> /\ dCount = 0
    /\ FeedIdle /\ ResyncIdle /\ CodecIdle

\* p.parseMetadata(payload) for the payload the records make
Walk ==
    /\ ~wRes.called
    /\ wPayload' = EncodeAll(wRecords)
    /\ wRes' = parseMetadata(tagMeta, EncodeAll(wRecords))
    /\ prevMeta' = tagMeta
    /\ tagMeta' = parseMetadata(tagMeta, EncodeAll(wRecords)).meta
    /\ UNCHANGED <<feedVars, buffer, bufCap, calls, framed, frame, panicked, spinning,
                   err,
                   resyncVars, codecVars, dispatchVars, wRecords>>

NextWalk == Walk

SpecWalk == InitWalk /\ [][NextWalk]_vars

Unknown(tag) == tag \notin DispatchTags

RECURSIVE Offset(_, _)
\* the payload offset at which record i starts
Offset(rs, i) == IF i = 1 THEN 0 ELSE Offset(rs, i - 1) + Len(Encode(rs[i - 1]))

\* the records without those whose tag id has no dispatch entry
KnownOnly(rs) == SelectSeq(rs, LAMBDA r : ~Unknown(r.tag))

\* C10: a record whose tag id has no dispatch entry is skipped as a whole
\* (tag byte, length field, value), changes no descriptor and is not in the
\* snapshot; the records behind it are still dispatched: the registry and
\* the snapshot are those of the payload without such records.
C10_UnknownTagSkipped ==
    wRes.called =>
        /\ Len(wRes.dispatched) = Len(wRecords)
        /\ wRes.index = Len(wPayload)
        /\ \A i \in 1..Len(wRecords) :
             /\ wRes.dispatched[i].tag = wRecords[i].tag
             /\ wRes.dispatched[i].value = wRecords[i].value
             /\ wRes.dispatched[i].from = Offset(wRecords, i)
             /\ wRes.dispatched[i].to = Offset(wRecords, i) + Len(Encode(wRecords[i]))
        /\ \A t \in wRes.ids : ~Unknown(t)
        /\ wRes.ids = { wRecords[i].tag : i \in { j \in 1..Len(wRecords) : ~Unknown(wRecords[j].tag) } }
        /\ LET k == parseMetadata(prevMeta, EncodeAll(KnownOnly(wRecords))) IN
           /\ tagMeta = k.meta
           /\ wRes.ids = k.ids
           /\ wRes.vals = k.vals

\* a payload with records for tags 1, 250 and 2 has yielded a snapshot with
\* tags 1 and 2, both decoded
C10_Witness ==
    /\ wRes.called
    /\ Len(wRecords) = 3
    /\ wRecords[1].tag = 1 /\ wRecords[2].tag = 250 /\ wRecords[3].tag = 2
    /\ wRes.ids = {1, 2}
    /\ wRes.vals[1] = FloatOfInt(100)
    /\ wRes.vals[2] = FloatOfInt(66051)

\* C22: for a payload that is an exact concatenation of records the walk
\* makes one dispatch per record, in payload order, with that record's
\* value bytes; the dispatches tile the payload (each starts at a tag byte
\* where the one before ended, none skips or shares a byte) and the cursor
\* ends at the payload length.
C22_RecordsTileThePayload ==
    wRes.called =>
        /\ Len(wRes.dispatched) = Len(wRecords)
        /\ \A i \in 1..Len(wRes.dispatched) :
             /\ wRes.dispatched[i].ok
             /\ wRes.dispatched[i].tag = wRecords[i].tag
             /\ wRes.dispatched[i].value = wRecords[i].value
             /\ wRes.dispatched[i].from = IF i = 1 THEN 0 ELSE wRes.dispatched[i - 1].to
             /\ wPayload[wRes.dispatched[i].from + 1] = wRecords[i].tag
             /\ wRes.dispatched[i].to - wRes.dispatched[i].from
                  = 1 + Len(wRecords[i].lengthField) + Len(wRecords[i].value)
             /\ wRes.dispatched[i].value
                  = SubSeq(wPayload,
                           wRes.dispatched[i].to - Len(wRecords[i].value) + 1,
                           wRes.dispatched[i].to)
        /\ wRes.index = Len(wPayload)
        /\ Len(wRecords) > 0 => wRes.dispatched[Len(wRecords)].to = Len(wPayload)

\* a payload of three records, two of them with a long-form length field,
\* has been walked to its end in three dispatches
C22_Witness ==
    /\ wRes.called
    /\ wRecords = <<Rec(3, <<129, 2>>, <<77, 49>>), Rec(250, <<129, 3>>, <<8, 1, 9>>),
                    Rec(8, <<1>>, <<5>>)>>
    /\ Len(wRes.dispatched) = 3
    /\ wRes.dispatched[2].value = <<8, 1, 9>>
    /\ wRes.index = 14

----------------------------------------------------------------------------
(* The tag walk on payloads that hold records whose value does not decode   *)
(* or is out of range, and that may end in a record cut short by the end    *)
(* of the payload.                                                          *)

MaxWhole == 2

\* whole records whose value is decoded and accepted
Accepted ==
    { Rec(1, <<2>>, <<0, 100>>),
      Rec(1, <<2>>, <<255, 255>>),
      Rec(2, <<8>>, <<0, 0, 0, 0, 0, 1, 2, 3>>),
      Rec(2, <<8>>, <<0, 32, 0, 0, 0, 0, 0, 1>>),      \* 2^53 + 1
      Rec(8, <<1>>, <<5>>),
      Rec(3, <<2>>, <<77, 49>>),
      Rec(48, <<2>>, <<171, 205>>) }

\* whole records whose value is too short for the tag's width, is empty for
\* the hex-rendered tag, or decodes to a value outside the tag's range
Refused ==
    { Rec(1, <<1>>, <<9>>),
      Rec(2, <<2>>, <<1, 2>>),
      Rec(8, <<0>>, <<>>),
      Rec(48, <<0>>, <<>>),
      Rec(6, <<2>>, <<128, 0>>),
      Rec(57, <<4>>, <<0, 76, 75, 65>>) }

\* records that declare more value bytes, or more length bytes, than follow
Cut ==
    { Rec(8, <<5>>, <<1, 2>>),
      Rec(8, <<3>>, <<3, 0>>),
      Rec(1, <<2>>, <<0>>),
      Rec(3, <<130, 0>>, <<>>) }

Payloads ==
    { rs \o c : rs \in UNION { [1..n -> Accepted \cup Refused] : n \in 0..MaxWhole },
                c \in {<<>>} \cup { <<r>> : r \in Cut } }

\* the registry after earlier packets that also set tags 3 and 48
HexMeta == parseMetadata(WarmMeta, <<48, 2, 171, 205, 3, 1, 65>>).meta

InitPayload ==
    /\ wRecords \in Payloads
    /\ wPayload = <<>>
    /\ wRes = NoWalk(tagMetaInit)
    /\ tagMeta \in {tagMetaInit, WarmMeta, HexMeta}
    /\ prevMeta = tagMetaInit
    /\ buffer = <<>> /\ bufCap = InitCap /\ calls = <<>> /\ framed = <<>>
    /\ frame = NoFrame /\ panicked = FALSE /\ spinning = FALSE /\ err = Nil
    /\ dTag = 0 /\ dValue = <<>> /\ dCount = 0
    /\ FeedIdle /\ ResyncIdle /\ CodecIdle

NextPayload == Walk

SpecPayload == InitPayload /\ [][NextPayload]_vars

\* the tag ids of the records of a payload
RecordTags(rs) == { rs[i].tag : i \in 1..Len(rs) }

\* the payload ends in a record cut short
EndsCut(rs) == rs # <<>> /\ rs[Len(rs)] \in Cut

\* C11: the snapshot's keys are exactly the known tag ids of the records of
\* the payload, whether or not their value was decoded and accepted.
C11_SnapshotKeys ==
    wRes.called => wRes.ids = RecordTags(wRecords) \cap KnownTags

\* C12: a descriptor whose tag id has no record in the payload, or whose
\* records in the payload are all refused or cut short, has the value it had
\* before the packet.
C12_AbsentTagsKeepValue ==
    wRes.called =>
        \A t \in KnownTags :
            (\A i \in 1..Len(wRecords) : wRecords[i].tag = t => wRecords[i] \notin Accepted)
                => tagMeta[t] = prevMeta[t]

\* a record whose value cannot be decoded: too short, empty for the hex tag,
\* or cut short by the end of the payload
Undecodable(r) ==
    \/ r \in Cut
    \/ r.tag = 48 /\ r.value = <<>>
    \/ r.tag \in {1, 2, 5, 6, 8, 57} /\ DecodedBy(r.tag, r.value).nil

\* C13: a record whose value cannot be decoded leaves its descriptor with
\* the value it had (when no other record of the payload carries that tag),
\* and the records behind it are still dispatched.
C13_DecodeFailureKeepsValue ==
    wRes.called =>
        /\ \A i \in 1..Len(wRecords) :
             (/\ Undecodable(wRecords[i])
              /\ \A j \in 1..Len(wRecords) : wRecords[j].tag = wRecords[i].tag => j = i)
                 => tagMeta[wRecords[i].tag] = prevMeta[wRecords[i].tag]
        /\ Len(wRes.dispatched) >= Len(wRecords)
        /\ \A i \in 1..Len(wRecords) : wRes.dispatched[i].tag = wRecords[i].tag

\* the records of a payload without the last one
Front(rs) == SubSeq(rs, 1, Len(rs) - 1)

\* C14: at a record that declares more bytes than the payload has left the
\* walk stops: nothing behind the record's start is dispatched, the records
\* before it are in the snapshot with the values they decode to, the
\* callback is invoked and ProcessChunk's error stays nil.
C14_TruncatedRecordStopsWalk ==
    (wRes.called /\ EndsCut(wRecords)) =>
        /\ \A i \in 1..Len(wRes.dispatched) :
             wRes.dispatched[i].from <= Offset(wRecords, Len(wRecords))
        /\ LET k == parseMetadata(prevMeta, EncodeAll(Front(wRecords))) IN
           /\ k.ids \subseteq wRes.ids
           /\ wRes.ids \subseteq k.ids \cup {wRecords[Len(wRecords)].tag}
           /\ \A t \in k.ids \ {wRecords[Len(wRecords)].tag} : wRes.vals[t] = k.vals[t]
        /\ ~wRes.panic
        /\ err = Nil

\* a payload of a 2-byte record of tag 1 and an 8-byte record of tag 2
ChecksumAndTime(rs) ==
    /\ Len(rs) = 2
    /\ rs[1].tag = 1 /\ rs[1].lengthField = <<2>> /\ Len(rs[1].value) = 2
    /\ rs[2].tag = 2 /\ rs[2].lengthField = <<8>> /\ Len(rs[2].value) = 8

\* C15: such a payload yields a snapshot with exactly tags 1 and 2, tag 1's
\* value the 2 bytes as a big-endian unsigned number, tag 2's value the 8
\* bytes as a big-endian unsigned number.
C15_EndToEnd ==
    (wRes.called /\ ChecksumAndTime(wRecords)) =>
        /\ wRes.ids = {1, 2}
        /\ wRes.vals[1] = Float(FALSE, BigEndian(wRecords[1].value), 1, 1, 0)
        /\ wRes.vals[2] = Float(FALSE, BigEndian(wRecords[2].value), 1, 1, 0)

\* C15 as the program has it: tag 2's value is the float64 of that number,
\* which is the number itself when it has at most 53 significant bits
C15_EndToEndFloat64 ==
    (wRes.called /\ ChecksumAndTime(wRecords)) =>
        /\ wRes.ids = {1, 2}
        /\ wRes.vals[1] = Float(FALSE, BigEndian(wRecords[1].value), 1, 1, 0)
        /\ wRes.vals[2] =
             Float(FALSE, RoundToFloat64(BigEndian(wRecords[2].value)), 1, 1, 0)
        /\ Lead(Bits(BigEndian(wRecords[2].value))) >= 12
             => wRes.vals[2].mag = BigEndian(wRecords[2].value)

\* the payload 01 02 00 64 02 08 00 00 00 00 00 01 02 03 has been walked
C15_Witness ==
    /\ wRes.called
    /\ wPayload = <<1, 2, 0, 100, 2, 8, 0, 0, 0, 0, 0, 1, 2, 3>>
    /\ wRes.ids = {1, 2}
    /\ wRes.vals[1] = FloatOfInt(100)
    /\ wRes.vals[2] = FloatOfInt(66051)

----------------------------------------------------------------------------
(* Two parsers in one process.  KLVParser holds a buffer and a callback;    *)
(* the registry tagMeta is a package-level variable that processValue and   *)
(* parseMetadata of every parser read and write.  The first parser is the   *)
(* one of the variables buffer .. err, the second is ref; their calls of    *)
(* ProcessChunk are interleaved call by call.                               *)

MaxSharedPieces == 2
SharedChunk == 7

\* the caller's reads: SharedChunk bytes at a time, or all that is left
SharedSizes(rem) == {Min(rem, SharedChunk), rem} \ {0}

\* what the first parser is fed: tag 8 = 42, then tag 6 = 9 * 40 / 65535
SharedFirst == <<Pkt(<<3>>, <<8, 1, 42>>), Pkt(<<4>>, <<6, 2, 0, 9>>)>>

\* what the second parser is fed: packets whose records are refused (tag 8
\* without a value, tag 6 below its range) or accepted (tag 8 = 9; tag 8 = 10
\* and then 11 in one packet)
SharedSecond ==
    { Pkt(<<2>>, <<8, 0>>), Pkt(<<4>>, <<6, 2, 128, 0>>), Pkt(<<3>>, <<8, 1, 9>>),
      Pkt(<<6>>, <<8, 1, 10, 8, 1, 11>>) }

InitShared ==
    /\ \E n \in 1..Len(SharedFirst) : stream = Concat(SubSeq(SharedFirst, 1, n))
    /\ \E ps \in UNION { [1..n -> SharedSecond] : n \in 1..MaxSharedPieces } :
         stream2 = Concat(ps)
    /\ pos = 0 /\ pos2 = 0
    /\ ParserInit
    /\ garbageLen = 0
    /\ ref = NewKLVParser
    /\ CodecIdle /\ DispatchIdle /\ WalkIdle

\* the first parser is handed the next n bytes of its stream
FeedFirst ==
    /\ ~panicked /\ ~spinning
    /\ \E n \in SharedSizes(Len(stream) - pos) :
         /\ pos' = pos + n
         /\ Call(SubSeq(stream, pos + 1, pos + n))
    /\ prevMeta' = tagMeta
    /\ UNCHANGED <<stream, resyncVars, codecVars, dispatchVars, walkVars>>

\* the second parser becomes st; the registry is the one it worked on
BecomesSecond(st) ==
    /\ ref' = st
    /\ tagMeta' = st.meta

\* the second parser is handed the next n bytes of its stream
FeedSecond ==
    /\ ~ref.panicked /\ ~ref.spinning
    /\ \E n \in SharedSizes(Len(stream2) - pos2) :
         /\ pos2' = pos2 + n
         /\ BecomesSecond(ProcessChunk([ref EXCEPT !.meta = tagMeta],
                                       SubSeq(stream2, pos2 + 1, pos2 + n)))
    /\ prevMeta' = tagMeta
    /\ UNCHANGED <<feedVars, buffer, bufCap, calls, framed, frame, panicked, spinning,
                   err, garbageLen, stream2, codecVars, dispatchVars, walkVars>>

NextShared == FeedFirst \/ FeedSecond

SpecShared == InitShared /\ [][NextShared]_vars

\* the record d of a walk was decoded and its value stored
Stored(d) ==
    /\ d.ok
    /\ ~DecodedBy(d.tag, d.value).nil
    /\ ~OutOfRange(d.tag, DecodedBy(d.tag, d.value).val)

LastOf(s) == s[Len(s)]

\* a call of the second parser that delivered one snapshot shows, for each
\* key none of whose records was stored, the value the registry held before
\* the call
SeesRegistry ==
    (pos2' # pos2 /\ Len(ref'.calls) = Len(ref.calls) + 1
                  /\ Len(ref'.framed) = Len(ref.framed) + 1) =>
        \A t \in LastOf(ref'.calls).ids :
            (\A j \in 1..Len(LastOf(ref'.framed).dispatched) :
                LastOf(ref'.framed).dispatched[j].tag = t
                    => ~Stored(LastOf(ref'.framed).dispatched[j]))
                => LastOf(ref'.calls).vals[t] = tagMeta[t]

\* a parser's buffer changes only in that parser's own call
OwnBuffers ==
    /\ buffer' # buffer => (pos' # pos /\ ref' = ref)
    /\ ref'.buffer # ref.buffer => (pos2' # pos2 /\ buffer' = buffer /\ calls' = calls)

\* C19: with two parsers in one process whose calls are interleaved, a value
\* the first has written to the registry is seen in the snapshots of the
\* second, and each parser's buffer is changed by its own calls only.
C19_SharedRegistry == [][SeesRegistry /\ OwnBuffers]_vars

\* the second parser was fed the one packet 08 00, which stores nothing, and
\* its snapshot shows 42 for tag 8: the value the first parser decoded; the
\* first parser holds the part of its second packet it has been fed
C19_Witness ==
    /\ stream2 = Pkt(<<2>>, <<8, 0>>)
    /\ pos2 = Len(stream2)
    /\ Len(ref.calls) = 1
    /\ ref.calls[1].ids = {8}
    /\ ref.calls[1].vals[8] = FloatOfInt(42)
    /\ tagMetaInit[8] # FloatOfInt(42)
    /\ Len(calls) = 1
    /\ pos > 20 /\ pos < Len(stream)
    /\ buffer = SubSeq(stream, 21, pos)

----------------------------------------------------------------------------
(* The fixed-width extractors on their own: each is applied to a value of   *)
(* 0 to MaxValueLen bytes.                                                  *)

MaxValueLen == 9

\* values of n bytes: all ones, all zeros, the sign bit alone, all but the
\* sign bit, ones ending in FE, and 1, 2, 3, ...
ValuesOfLen(n) ==
    { [i \in 1..n |-> 255],
      [i \in 1..n |-> 0],
      [i \in 1..n |-> IF i = 1 THEN 128 ELSE 0],
      [i \in 1..n |-> IF i = 1 THEN 127 ELSE 255],
      [i \in 1..n |-> IF i = n THEN 254 ELSE 255],
      [i \in 1..n |-> i] }

ExtractorValues == UNION { ValuesOfLen(n) : n \in 0..MaxValueLen }

Extractors ==
    { "extractUint8", "extractInt8", "extractScaledUint8",
      "extractUint16", "extractScaledUint16", "extractScaledUint16WithOffset",
      "extractScaledInt16",
      "extractUint32", "extractInt32", "extractScaledUint32", "extractScaledInt32",
      "extractUint64", "extractInt64" }

\* the scale (as a fraction) and the offset the scaled extractor is called
\* with: those of processTag where they fit, 1 otherwise
ScaleNum(op) ==
    CASE op = "extractScaledUint16" -> 360
      [] op = "extractScaledUint16WithOffset" -> 19900
      [] op = "extractScaledInt16" -> 40
      [] op = "extractScaledInt32" -> 360
      [] OTHER -> 1

ScaleDen(op) ==
    CASE op \in {"extractScaledUint16", "extractScaledUint16WithOffset",
                 "extractScaledInt16"} -> 65535
      [] op = "extractScaledInt32" -> 2147483647
      [] OTHER -> 1

ScaleOffset(op) == IF op = "extractScaledUint16WithOffset" THEN 0 - 900 ELSE 0

ExtractedBy(op, value) ==
    CASE op = "extractUint8" -> extractUint8(value)
      [] op = "extractInt8" -> extractInt8(value)
      [] op = "extractScaledUint8" -> extractScaledUint8(value, ScaleNum(op), ScaleDen(op))
      [] op = "extractUint16" -> extractUint16(value)
      [] op = "extractScaledUint16" ->
             extractScaledUint16(value, ScaleNum(op), ScaleDen(op))
      [] op = "extractScaledUint16WithOffset" ->
             extractScaledUint16WithOffset(value, ScaleNum(op), ScaleDen(op),
                                           ScaleOffset(op))
      [] op = "extractScaledInt16" -> extractScaledInt16(value, ScaleNum(op), ScaleDen(op))
      [] op = "extractUint32" -> extractUint32(value)
      [] op = "extractInt32" -> extractInt32(value)
      [] op = "extractScaledUint32" ->
             extractScaledUint32(value, ScaleNum(op), ScaleDen(op))
      [] op = "extractScaledInt32" -> extractScaledInt32(value, ScaleNum(op), ScaleDen(op))
      [] op = "extractUint64" -> extractUint64(value)
      [] op = "extractInt64" -> extractInt64(value)

InitExtract ==
    /\ cData \in ExtractorValues
    /\ cOp = "none"
    /\ cRes = NoResult
    /\ FeedIdle /\ ParserInit /\ ResyncIdle /\ DispatchIdle /\ WalkIdle

Extract ==
    /\ cOp = "none"
    /\ \E op \in Extractors :
         /\ cOp' = op
         /\ cRes' = ExtractedBy(op, cData)
    /\ UNCHANGED <<feedVars, parserVars, resyncVars, cData, dispatchVars,
                   prevMeta, walkVars>>

NextExtract == Extract

SpecExtract == InitExtract /\ [][NextExtract]_vars

\* the width in bytes an extractor reads
Width(op) ==
    CASE op \in {"extractUint8", "extractInt8", "extractScaledUint8"} -> 1
      [] op \in {"extractUint16", "extractScaledUint16",
                 "extractScaledUint16WithOffset", "extractScaledInt16"} -> 2
      [] op \in {"extractUint32", "extractInt32", "extractScaledUint32",
                 "extractScaledInt32"} -> 4
      [] OTHER -> 8

SignedExtractors ==
    {"extractInt8", "extractScaledInt16", "extractInt32", "extractScaledInt32",
     "extractInt64"}

ScaledExtractors ==
    {"extractScaledUint8", "extractScaledUint16", "extractScaledUint16WithOffset",
     "extractScaledInt16", "extractScaledUint32", "extractScaledInt32"}

RECURSIVE CarryInto(_, _, _)
\* the carry into byte i when the equally long numbers a and b are added
CarryInto(a, b, i) ==
    IF i = Len(a) THEN 0
    ELSE (a[i + 1] + b[i + 1] + CarryInto(a, b, i + 1)) \div 256

\* a + b = 2^(8 * Len(a)) for the equally long big-endian numbers a and b
SumIsTwoToWidth(a, b) ==
    /\ \A i \in 1..Len(a) : (a[i] + b[i] + CarryInto(a, b, i)) % 256 = 0
    /\ (a[1] + b[1] + CarryInto(a, b, 1)) \div 256 = 1

\* the number (neg, mag) is what the bytes bs are in two's complement: the
\* unsigned number u when the sign bit is clear, else u - 2^(8 * Len(bs))
IsTwosComplementOf(neg, mag, bs) ==
    IF bs[1] < 128 THEN ~neg /\ mag = BigEndian(bs)
    ELSE /\ neg
         /\ \A i \in 1..(8 - Len(bs)) : mag[i] = 0
         /\ SumIsTwoToWidth(SubSeq(mag, 9 - Len(bs), 8), bs)

\* C23: a fixed-width extractor returns nil exactly when the value has fewer
\* bytes than its width; otherwise it returns the first width bytes read as
\* a big-endian number, in two's complement for the signed extractors (FF FF
\* as int16 is -1), with the scale and offset it was given.
C23_FixedWidthExtractors ==
    cOp \in Extractors =>
        /\ cRes.nil <=> Len(cData) < Width(cOp)
        /\ ~cRes.nil =>
             /\ cOp \in SignedExtractors =>
                  IsTwosComplementOf(cRes.val.neg, cRes.val.mag,
                                     SubSeq(cData, 1, Width(cOp)))
             /\ (cOp \notin SignedExtractors /\ cOp \in ScaledExtractors) =>
                  ~cRes.val.neg /\ cRes.val.mag = BigEndian(SubSeq(cData, 1, Width(cOp)))
             /\ (cOp \notin SignedExtractors /\ cOp \notin ScaledExtractors) =>
                  cRes.val = BigEndian(SubSeq(cData, 1, Width(cOp)))
             /\ cOp \in ScaledExtractors =>
                  /\ cRes.val.kind = "float64"
                  /\ cRes.val.sn = ScaleNum(cOp) /\ cRes.val.sd = ScaleDen(cOp)
                  /\ cRes.val.off = ScaleOffset(cOp)
             /\ (cOp = "extractScaledInt16" /\ SubSeq(cData, 1, 2) = <<255, 255>>) =>
                  cRes.val.neg /\ cRes.val.mag = W64OfInt(1)
             /\ (cOp = "extractInt8" /\ cData[1] = 255) =>
                  cRes.val = Signed(TRUE, W64OfInt(1))

\* extractInt64 was given nine bytes FF .. FF FE and returned -1, the first
\* eight bytes in two's complement
C23_Witness ==
    /\ cOp = "extractInt64"
    /\ cData = <<255, 255, 255, 255, 255, 255, 255, 255, 254>>
    /\ cRes = PointerTo(Signed(TRUE, W64OfInt(1)))

----------------------------------------------------------------------------
(* Several records of one tag id in a payload *)

\* the positions of the records of rs with tag id t, and of those among
\* them that decode and pass the bounds check
Occurrences(rs, t) == { i \in 1..Len(rs) : rs[i].tag = t }
AcceptedOccurrences(rs, t) == { i \in Occurrences(rs, t) : rs[i] \in Accepted }

Last(S) == CHOOSE i \in S : \A j \in S : j <= i

\* the value an accepted record gives its descriptor
ValueOfRecord(r) ==
    CASE r.tag = 3 -> Str(r.value)
      [] r.tag = 48 -> HexPtr(SprintfX(r.value))
      [] OTHER -> DecodedBy(r.tag, r.value).val

\* C26: when a tag id occurs in several records of one payload, the
\* descriptor's value after the packet is that of the last of them that
\* decoded and passed the bounds check, and the snapshot has one entry for
\* the id, which shows that value.
C26_LastAcceptedOccurrenceWins ==
    (wRes.called /\ ~EndsCut(wRecords)) =>
        \A t \in RecordTags(wRecords) :
            (Cardinality(Occurrences(wRecords, t)) > 1
             /\ AcceptedOccurrences(wRecords, t) # {}) =>
                /\ tagMeta[t] = ValueOfRecord(wRecords[Last(AcceptedOccurrences(wRecords, t))])
                /\ t \in wRes.ids
                /\ wRes.vals[t] = tagMeta[t]

----------------------------------------------------------------------------
(* Snapshots the caller keeps *)

\* what a kept snapshot c shows for its key t now: the value of the
\* descriptor its entry points to when that is a descriptor of the registry,
\* else what the entry held when it was handed over
View(c, t) == IF c.ptrs[t] \in DOMAIN tagMeta THEN tagMeta[c.ptrs[t]] ELSE c.vals[t]

\* every snapshot ever delivered shows the registry's current values
KeptSnapshotsShowRegistry ==
    /\ \A i \in 1..Len(calls) : \A t \in calls[i].ids : View(calls[i], t) = tagMeta[t]
    /\ \A i \in 1..Len(ref.calls) :
           \A t \in ref.calls[i].ids : View(ref.calls[i], t) = tagMeta[t]

\* a call of the second parser that delivered one snapshot: what the
\* callback saw for each key is the registry's value after the call, that
\* is after all records of the packet
SeenAtCallback ==
    (pos2' # pos2 /\ Len(ref'.calls) = Len(ref.calls) + 1
                  /\ Len(ref'.framed) = Len(ref.framed) + 1) =>
        \A t \in LastOf(ref'.calls).ids : LastOf(ref'.calls).vals[t] = tagMeta'[t]

\* C27: the snapshot's entries are the registry's descriptors, not copies:
\* what the callback sees through an entry is the registry's value after all
\* records of the packet, and a snapshot the caller has kept shows the new
\* value once a later packet has updated the tag id.
C27_SnapshotEntriesAlias == []KeptSnapshotsShowRegistry /\ [][SeenAtCallback]_vars

\* the second parser delivered the snapshot of 08 00 and then that of
\* 08 01 0A 08 01 0B: the callback saw 11 for tag 8 in the second, and the
\* first, which held another value when it was delivered, now shows 11 too
C27_Witness ==
    /\ stream2 = Pkt(<<2>>, <<8, 0>>) \o Pkt(<<6>>, <<8, 1, 10, 8, 1, 11>>)
    /\ Len(ref.calls) = 2
    /\ ref.calls[2].vals[8] = FloatOfInt(11)
    /\ ref.calls[1].vals[8] # FloatOfInt(11)
    /\ View(ref.calls[1], 8) = FloatOfInt(11)

============================================================================
